---- MODULE Spec2Model ----
(***************************************************************************)
(* Model of app.py: process_document, the handler behind the Gradio        *)
(* button.  A request checks its image and the credential, asks the remote *)
(* model for the text of the image, assembles a Word document from the     *)
(* response text and saves it at the fixed path Converted_Document.docx.   *)
(*                                                                         *)
(* Text is a sequence of one-character strings.  The file at the fixed     *)
(* path is shared by all requests.                                         *)
(***************************************************************************)
EXTENDS Naturals, Sequences, FiniteSets

\* ------------------------------------------------------------- bounds
\* Longest response text of the single-client specification SpecSeq.
MaxLen == 3

\* ------------------------------------------------------------- text
NL == "\n"
SP == " "
STAR == "*"
Alphabet == {"a", SP, STAR, NL}
\* str.strip() with no argument removes these (of the alphabet).
Whitespace == {SP, NL}

TextsUpTo(n) == UNION {[1..k -> Alphabet] : k \in 0..n}
Texts == TextsUpTo(MaxLen)
\* Response texts of the two-client specification Spec: empty, a plain
\* line, an italic line, a blank line.
RaceTexts == {<<>>, <<"a">>, <<STAR, "a">>, <<SP>>}

\* s[i..] and s[..i] as Python slices
Drop(s, k) == SubSeq(s, k + 1, Len(s))

\* extracted_text.split('\n'): the pieces between line breaks, always at
\* least one piece.
RECURSIVE SplitFrom(_, _)
SplitFrom(s, cur) ==
    IF s = <<>> THEN <<cur>>
    ELSE IF Head(s) = NL THEN <<cur>> \o SplitFrom(Tail(s), <<>>)
    ELSE SplitFrom(Tail(s), Append(cur, Head(s)))
Split(s) == SplitFrom(s, <<>>)

\* line.strip(): drop leading, then trailing whitespace.
RECURSIVE LStrip(_)
LStrip(s) ==
    IF s # <<>> /\ Head(s) \in Whitespace THEN LStrip(Tail(s)) ELSE s
RECURSIVE RStrip(_)
RStrip(s) ==
    IF s # <<>> /\ s[Len(s)] \in Whitespace
    THEN RStrip(SubSeq(s, 1, Len(s) - 1)) ELSE s
Strip(s) == RStrip(LStrip(s))

\* s.replace('**', ''): non-overlapping occurrences, left to right.
RECURSIVE ReplaceDouble(_)
ReplaceDouble(s) ==
    IF Len(s) < 2 THEN s
    ELSE IF s[1] = STAR /\ s[2] = STAR THEN ReplaceDouble(Drop(s, 2))
    ELSE <<s[1]>> \o ReplaceDouble(Tail(s))

\* s.replace('*', '')
RECURSIVE ReplaceSingle(_)
ReplaceSingle(s) ==
    IF s = <<>> THEN s
    ELSE IF Head(s) = STAR THEN ReplaceSingle(Tail(s))
    ELSE <<Head(s)>> \o ReplaceSingle(Tail(s))

\* '**' in line,  '*' in line
HasDouble(line) == \E i \in 1..(Len(line) - 1) : line[i] = STAR /\ line[i + 1] = STAR
HasSingle(line) == \E i \in 1..Len(line) : line[i] = STAR

\* Variants of Paragraph with one slip each.
\* italic does not test that '**' is absent.
ParagraphItalicWithBold(line) ==
    [text   |-> ReplaceSingle(ReplaceDouble(Strip(line))),
     bold   |-> HasDouble(line),
     italic |-> HasSingle(line)]
\* The two flags are swapped.
ParagraphSwapped(line) ==
    [text   |-> ReplaceSingle(ReplaceDouble(Strip(line))),
     bold   |-> HasSingle(line) /\ ~HasDouble(line),
     italic |-> HasDouble(line)]
\* The text is taken from line, not from clean_line.
ParagraphUnstripped(line) ==
    [text   |-> ReplaceSingle(ReplaceDouble(line)),
     bold   |-> HasDouble(line),
     italic |-> HasSingle(line) /\ ~HasDouble(line)]
\* The second replace is missing.
ParagraphKeepsSingle(line) ==
    [text   |-> ReplaceDouble(Strip(line)),
     bold   |-> HasDouble(line),
     italic |-> HasSingle(line) /\ ~HasDouble(line)]

\* The run of one paragraph: run.bold and run.italic are unset (FALSE here)
\* unless the loop body sets them.
Paragraph(line) ==
    [text   |-> ReplaceSingle(ReplaceDouble(Strip(line))),
     bold   |-> HasDouble(line),
     italic |-> HasSingle(line) /\ ~HasDouble(line)]

\* Variant of AddParagraphs that tests line, not clean_line.
RECURSIVE AddParagraphsUntrimmed(_, _)
AddParagraphsUntrimmed(paras, lines) ==
    IF lines = <<>> THEN paras
    ELSE AddParagraphsUntrimmed(
            IF Head(lines) # <<>>
            THEN Append(paras, Paragraph(Head(lines))) ELSE paras,
            Tail(lines))

\* The loop over the lines: a paragraph for each line whose clean_line is
\* non-empty, appended in the order of the lines.
RECURSIVE AddParagraphs(_, _)
AddParagraphs(paras, lines) ==
    IF lines = <<>> THEN paras
    ELSE AddParagraphs(
            IF Strip(Head(lines)) # <<>>
            THEN Append(paras, Paragraph(Head(lines))) ELSE paras,
            Tail(lines))

\* Document() followed by the loop: the paragraphs of the assembled document.
Format(text) == AddParagraphs(<<>>, Split(text))

\* ------------------------------------------------------------- state
\* Two clients of the one handler; Gradio runs each call on its own thread.
Requests == {1, 2}
\* The value of input_img: None, an array Image.fromarray accepts, or one
\* it rejects with an exception.
Images == {"null", "valid", "invalid"}

output_path == "Converted_Document.docx"
MsgNoImage == "Error: No image uploaded."
MsgNoKey == "Error: API Key missing in Space Secrets (GEMINI_API_KEY)."
MsgEmpty == "Error: Model returned an empty response."
MsgSuccess == "Conversion Successful!"
\* f"System Error: {str(e)}": the text of the exception is left out.
MsgSystemError == "System Error"

\* Contents of the file at output_path.
Absent == [kind |-> "absent", paras |-> <<>>]
Partial == [kind |-> "partial", paras |-> <<>>]
Docx(paras) == [kind |-> "docx", paras |-> paras]

NoResult == [file |-> "None", status |-> "", preview |-> <<>>]
NoResponse == [kind |-> "unset", text |-> <<>>]
NoneResponse == [kind |-> "none", text |-> <<>>]
TextResponse(t) == [kind |-> "text", text |-> t]
NoDoc == [made |-> FALSE, paras |-> <<>>]

VARIABLES
    api_key,       \* os.getenv("GEMINI_API_KEY") is set (read once at import)
    file,          \* contents of the file at output_path
    pc,            \* where each request stands in process_document
    img,           \* input_img of the current call
    resp,          \* response of model.generate_content
    doc,           \* the Document being assembled
    result,        \* the triple the call returned
    effects,       \* external operations the current call has performed
    fileBefore,    \* contents of the file when the current call began
    fileAtReturn,  \* contents of the file when the call returned
    overlapped     \* another call was in progress during the current call

vars == <<api_key, file, pc, img, resp, doc, result, effects,
          fileBefore, fileAtReturn, overlapped>>

Active(p) == p \in {"try", "save", "ret"}
Callable(r) == pc[r] \in {"idle", "done"}

Init ==
    /\ api_key \in BOOLEAN
    /\ file = Absent
    /\ pc = [r \in Requests |-> "idle"]
    /\ img = [r \in Requests |-> "null"]
    /\ resp = [r \in Requests |-> NoResponse]
    /\ doc = [r \in Requests |-> NoDoc]
    /\ result = [r \in Requests |-> NoResult]
    /\ effects = [r \in Requests |-> {}]
    /\ fileBefore = [r \in Requests |-> Absent]
    /\ fileAtReturn = [r \in Requests |-> Absent]
    /\ overlapped = [r \in Requests |-> FALSE]

\* Entry of a call by r with image i: the locals of the previous call are gone.
Enter(r, i) ==
    /\ Callable(r)
    /\ img' = [img EXCEPT ![r] = i]
    /\ resp' = [resp EXCEPT ![r] = NoResponse]
    /\ doc' = [doc EXCEPT ![r] = NoDoc]
    /\ effects' = [effects EXCEPT ![r] = {}]
    /\ fileBefore' = [fileBefore EXCEPT ![r] = file]
    /\ overlapped' = [q \in Requests |->
                        IF q = r THEN \E p \in Requests \ {r} : Active(pc[p])
                        ELSE overlapped[q] \/ Active(pc[q])]

\* A return statement: the call of r ends with the triple (f, status, preview).
ReturnWith(r, f, status, preview) ==
    /\ pc' = [pc EXCEPT ![r] = "done"]
    /\ result' = [result EXCEPT ![r] =
                    [file |-> f, status |-> status, preview |-> preview]]

\* Variant of BeginNoImage: the image is tested after the remote call.
BeginNoImageAfterCall(r) ==
    /\ Callable(r)
    /\ img' = [img EXCEPT ![r] = "null"]
    /\ resp' = [resp EXCEPT ![r] = NoResponse]
    /\ doc' = [doc EXCEPT ![r] = NoDoc]
    /\ effects' = [effects EXCEPT ![r] = {"generate"}]
    /\ fileBefore' = [fileBefore EXCEPT ![r] = file]
    /\ overlapped' = [q \in Requests |->
                        IF q = r THEN \E p \in Requests \ {r} : Active(pc[p])
                        ELSE overlapped[q] \/ Active(pc[q])]
    /\ ReturnWith(r, "None", MsgNoImage, <<>>)
    /\ fileAtReturn' = [fileAtReturn EXCEPT ![r] = file]
    /\ UNCHANGED <<api_key, file>>

\* if input_img is None: return None, "Error: No image uploaded.", ""
BeginNoImage(r) ==
    /\ Enter(r, "null")
    /\ ReturnWith(r, "None", MsgNoImage, <<>>)
    /\ fileAtReturn' = [fileAtReturn EXCEPT ![r] = file]
    /\ UNCHANGED <<api_key, file>>

\* if not api_key: return None, "Error: API Key missing ...", ""
BeginNoKey(r, i) ==
    /\ i # "null"
    /\ ~api_key
    /\ Enter(r, i)
    /\ ReturnWith(r, "None", MsgNoKey, <<>>)
    /\ fileAtReturn' = [fileAtReturn EXCEPT ![r] = file]
    /\ UNCHANGED <<api_key, file>>

\* Variant of BeginTry: the credential is not tested.
BeginTryAnyKey(r, i) ==
    /\ i # "null"
    /\ Enter(r, i)
    /\ pc' = [pc EXCEPT ![r] = "try"]
    /\ result' = [result EXCEPT ![r] = NoResult]
    /\ UNCHANGED <<api_key, file, fileAtReturn>>

\* Both checks pass: the call enters the try block.
BeginTry(r, i) ==
    /\ i # "null"
    /\ api_key
    /\ Enter(r, i)
    /\ pc' = [pc EXCEPT ![r] = "try"]
    /\ result' = [result EXCEPT ![r] = NoResult]
    /\ UNCHANGED <<api_key, file, fileAtReturn>>

\* except Exception as e: return None, f"System Error: {str(e)}", ""
\* f is what the raising statement left at output_path.
Caught(r, f) ==
    /\ file' = f
    /\ ReturnWith(r, "None", MsgSystemError, <<>>)
    /\ fileAtReturn' = [fileAtReturn EXCEPT ![r] = f]

\* Image.fromarray(input_img) raises: the remote call is not reached.
FromArrayRaises(r) ==
    /\ pc[r] = "try"
    /\ img[r] = "invalid"
    /\ Caught(r, file)
    /\ UNCHANGED <<api_key, img, resp, doc, effects, fileBefore, overlapped>>

\* model.generate_content([prompt, pil_img]) raises.
GenerateRaises(r) ==
    /\ pc[r] = "try"
    /\ img[r] = "valid"
    /\ effects' = [effects EXCEPT ![r] = @ \cup {"generate"}]
    /\ Caught(r, file)
    /\ UNCHANGED <<api_key, img, resp, doc, fileBefore, overlapped>>

\* Variant of EmptyResponse: the document is created and saved before the
\* response is tested.
EmptyResponseAfterSave(r, rsp) ==
    /\ pc[r] = "try"
    /\ img[r] = "valid"
    /\ rsp.kind = "none" \/ rsp.text = <<>>
    /\ effects' = [effects EXCEPT ![r] = @ \cup {"generate", "save"}]
    /\ resp' = [resp EXCEPT ![r] = rsp]
    /\ file' = Docx(<<>>)
    /\ ReturnWith(r, "None", MsgEmpty, <<>>)
    /\ fileAtReturn' = [fileAtReturn EXCEPT ![r] = Docx(<<>>)]
    /\ UNCHANGED <<api_key, img, doc, fileBefore, overlapped>>

\* if not response or not response.text: return None, "Error: Model returned ..."
EmptyResponse(r, rsp) ==
    /\ pc[r] = "try"
    /\ img[r] = "valid"
    /\ rsp.kind = "none" \/ rsp.text = <<>>
    /\ effects' = [effects EXCEPT ![r] = @ \cup {"generate"}]
    /\ resp' = [resp EXCEPT ![r] = rsp]
    /\ ReturnWith(r, "None", MsgEmpty, <<>>)
    /\ fileAtReturn' = [fileAtReturn EXCEPT ![r] = file]
    /\ UNCHANGED <<api_key, file, img, doc, fileBefore, overlapped>>

\* Variant of Assemble: an empty text is not told from a text.
AssembleAnyText(r, t) ==
    /\ pc[r] = "try"
    /\ img[r] = "valid"
    /\ effects' = [effects EXCEPT ![r] = @ \cup {"generate"}]
    /\ resp' = [resp EXCEPT ![r] = TextResponse(t)]
    /\ doc' = [doc EXCEPT ![r] = [made |-> TRUE, paras |-> Format(t)]]
    /\ pc' = [pc EXCEPT ![r] = "save"]
    /\ UNCHANGED <<api_key, file, img, result, fileBefore, fileAtReturn, overlapped>>

\* The response has text: doc = Document() and the loop over its lines.
Assemble(r, t) ==
    /\ pc[r] = "try"
    /\ img[r] = "valid"
    /\ t # <<>>
    /\ effects' = [effects EXCEPT ![r] = @ \cup {"generate"}]
    /\ resp' = [resp EXCEPT ![r] = TextResponse(t)]
    /\ doc' = [doc EXCEPT ![r] = [made |-> TRUE, paras |-> Format(t)]]
    /\ pc' = [pc EXCEPT ![r] = "save"]
    /\ UNCHANGED <<api_key, file, img, result, fileBefore, fileAtReturn, overlapped>>

\* Document(), add_paragraph or add_run raises while the document is assembled.
AssembleRaises(r, t) ==
    /\ pc[r] = "try"
    /\ img[r] = "valid"
    /\ t # <<>>
    /\ effects' = [effects EXCEPT ![r] = @ \cup {"generate"}]
    /\ resp' = [resp EXCEPT ![r] = TextResponse(t)]
    /\ Caught(r, file)
    /\ UNCHANGED <<api_key, img, doc, fileBefore, overlapped>>

\* Variant of Save: an existing document is not overwritten.
SaveKeepsExisting(r) ==
    /\ pc[r] = "save"
    /\ effects' = [effects EXCEPT ![r] = @ \cup {"save"}]
    /\ file' = IF file.kind = "docx" THEN file ELSE Docx(doc[r].paras)
    /\ pc' = [pc EXCEPT ![r] = "ret"]
    /\ UNCHANGED <<api_key, img, resp, doc, result, fileBefore, fileAtReturn, overlapped>>

\* doc.save(output_path) writes the document over whatever the path holds.
Save(r) ==
    /\ pc[r] = "save"
    /\ effects' = [effects EXCEPT ![r] = @ \cup {"save"}]
    /\ file' = Docx(doc[r].paras)
    /\ pc' = [pc EXCEPT ![r] = "ret"]
    /\ UNCHANGED <<api_key, img, resp, doc, result, fileBefore, fileAtReturn, overlapped>>

\* doc.save(output_path) raises: before the path is opened for writing (the
\* file is as it was) or after, with the file truncated and partly written.
SaveRaises(r, opened) ==
    /\ pc[r] = "save"
    /\ effects' = [effects EXCEPT ![r] = @ \cup {"save"}]
    /\ Caught(r, IF opened THEN Partial ELSE file)
    /\ UNCHANGED <<api_key, img, resp, doc, fileBefore, overlapped>>

\* return output_path, "Conversion Successful!", extracted_text
Return(r) ==
    /\ pc[r] = "ret"
    /\ ReturnWith(r, output_path, MsgSuccess, resp[r].text)
    /\ fileAtReturn' = [fileAtReturn EXCEPT ![r] = file]
    /\ UNCHANGED <<api_key, file, img, resp, doc, effects, fileBefore, overlapped>>

\* What the remote model can answer.
Responses(T) == {NoneResponse} \cup {TextResponse(t) : t \in T}

\* Two clients, calls interleaved at the accesses to the shared file.
Next ==
    \E r \in Requests :
        \/ BeginNoImage(r)
        \/ \E i \in Images : BeginNoKey(r, i)
        \/ \E i \in Images : BeginTry(r, i)
        \/ FromArrayRaises(r)
        \/ GenerateRaises(r)
        \/ \E rsp \in Responses(RaceTexts) : EmptyResponse(r, rsp)
        \/ \E t \in RaceTexts : Assemble(r, t)
        \/ \E t \in RaceTexts : AssembleRaises(r, t)
        \/ Save(r)
        \/ \E opened \in BOOLEAN : SaveRaises(r, opened)
        \/ Return(r)

Spec == Init /\ [][Next]_vars

\* One client, one call after the other, the longer response texts.
NextSeq ==
    \/ BeginNoImage(1)
    \/ \E i \in Images : BeginNoKey(1, i)
    \/ \E i \in Images : BeginTry(1, i)
    \/ FromArrayRaises(1)
    \/ GenerateRaises(1)
    \/ \E rsp \in Responses(Texts) : EmptyResponse(1, rsp)
    \/ \E t \in Texts : Assemble(1, t)
    \/ \E t \in Texts : AssembleRaises(1, t)
    \/ Save(1)
    \/ \E opened \in BOOLEAN : SaveRaises(1, opened)
    \/ Return(1)

SpecSeq == Init /\ [][NextSeq]_vars

\* ------------------------------------------------------------- properties
Done(r) == pc[r] = "done"
Failed(r) == Done(r) /\ result[r].file = "None"
Succeeded(r) == Done(r) /\ result[r].file = output_path
IsError(status) == status \in {MsgNoImage, MsgNoKey, MsgEmpty, MsgSystemError}

\* The lines of a text, read off the positions of its line breaks.
Breaks(t) == {i \in 1..Len(t) : t[i] = NL}
LineCount(t) == Cardinality(Breaks(t)) + 1
\* Where line k starts and ends: after the (k-1)th break, before the kth.
LineStart(t, k) ==
    IF k = 1 THEN 1
    ELSE 1 + CHOOSE i \in Breaks(t) : Cardinality({j \in Breaks(t) : j <= i}) = k - 1
LineEnd(t, k) ==
    IF k = LineCount(t) THEN Len(t)
    ELSE (CHOOSE i \in Breaks(t) : Cardinality({j \in Breaks(t) : j <= i}) = k) - 1
LineOf(t, k) == SubSeq(t, LineStart(t, k), LineEnd(t, k))
Ink(l) == {i \in 1..Len(l) : l[i] \notin Whitespace}
NonBlank(l) == Ink(l) # {}
\* The lines that are non-empty after trimming, in the order of the text.
NonBlankLines(t) ==
    SelectSeq([k \in 1..LineCount(t) |-> LineOf(t, k)], NonBlank)
\* A non-blank line from its first to its last non-whitespace character.
Trimmed(l) ==
    SubSeq(l, CHOOSE i \in Ink(l) : \A j \in Ink(l) : i <= j,
              CHOOSE i \in Ink(l) : \A j \in Ink(l) : j <= i)
NotStar(c) == c # STAR
Unmarked(l) == SelectSeq(l, NotStar)
StarCount(l) == Cardinality({i \in 1..Len(l) : l[i] = STAR})

\* The single client's call has saved its document and nothing has been
\* written since: file is the saved document of the response resp[1].
Saved == pc[1] = "ret" \/ Succeeded(1)
SavedLines == NonBlankLines(resp[1].text)
\* Paragraph k of the saved document belongs to non-blank line k.
Aligned == file.kind = "docx" /\ Len(file.paras) = Len(SavedLines)

\* C1 as stated: every call that returns a failure, whatever raised it,
\* leaves the file at output_path as it was when the call began (calls that
\* no other call overlaps).
C1_AnyFailureKeepsFile ==
    \A r \in Requests :
        Failed(r) /\ ~overlapped[r] => fileAtReturn[r] = fileBefore[r]

\* C1 amended: a call that fails before doc.save is invoked (null image,
\* missing credential, empty response, exception in the remote call or in
\* the assembly) leaves the file as it was; an exception raised by doc.save
\* leaves it as it was or truncated.
C1_FailureBeforeSaveKeepsFile ==
    \A r \in Requests :
        Failed(r) /\ ~overlapped[r] =>
            IF "save" \in effects[r]
            THEN fileAtReturn[r] \in {fileBefore[r], Partial}
            ELSE fileAtReturn[r] = fileBefore[r]

C1_Witness ==
    \E r \in Requests :
        /\ Failed(r) /\ ~overlapped[r]
        /\ result[r].status = MsgSystemError
        /\ effects[r] = {"generate"}
        /\ resp[r].kind = "text"
        /\ fileBefore[r].kind = "docx" /\ fileBefore[r].paras # <<>>

\* C2 as stated: without the credential every call, null image included,
\* returns no file and the credential message, and makes no remote call.
C2_NoKeyAlwaysKeyMessage ==
    ~api_key =>
        \A r \in Requests :
            /\ "generate" \notin effects[r]
            /\ Done(r) => result[r].file = "None" /\ result[r].status = MsgNoKey

\* C2 amended: without the credential no call makes the remote call and
\* every call returns no file; the message is the credential message for
\* every image that is not null (valid or not) and the no-image message for
\* a null image.
C2_NoKeyFailsFast ==
    ~api_key =>
        \A r \in Requests :
            /\ pc[r] \in {"idle", "done"}
            /\ "generate" \notin effects[r]
            /\ Done(r) =>
                /\ result[r].file = "None"
                /\ result[r].preview = <<>>
                /\ result[r].status =
                      IF img[r] = "null" THEN MsgNoImage ELSE MsgNoKey

C2_Witness ==
    /\ ~api_key
    /\ Done(1) /\ img[1] = "valid" /\ result[1].status = MsgNoKey
    /\ Done(2) /\ img[2] = "invalid" /\ result[2].status = MsgNoKey

\* C3: a call with a null image returns no file, an error status and an
\* empty preview, and performs neither the remote call nor the save.
C3_NullImage ==
    \A r \in Requests :
        Done(r) /\ img[r] = "null" =>
            /\ result[r].file = "None"
            /\ IsError(result[r].status)
            /\ result[r].preview = <<>>
            /\ effects[r] = {}
            /\ ~doc[r].made

C3_Witness ==
    \E r \in Requests :
        /\ api_key
        /\ Done(r) /\ img[r] = "null" /\ result[r].status = MsgNoImage
        /\ fileBefore[r].kind = "docx"

\* C8: when the model returns no response or an empty text, the call
\* returns no file, the empty-response message and an empty preview, and
\* neither creates nor saves a document.
C8_EmptyResponse ==
    \A r \in Requests :
        Done(r) /\ (resp[r].kind = "none" \/ (resp[r].kind = "text" /\ resp[r].text = <<>>)) =>
            /\ result[r] = [file |-> "None", status |-> MsgEmpty, preview |-> <<>>]
            /\ ~doc[r].made
            /\ "save" \notin effects[r]

C8_Witness ==
    /\ Done(1) /\ resp[1] = NoneResponse /\ result[1].status = MsgEmpty
    /\ Done(2) /\ resp[2] = TextResponse(<<>>) /\ result[2].status = MsgEmpty

\* C9: a successful call that no other call overlapped finds, at its return,
\* the paragraphs of its own response in the file; with overlapping calls
\* there is no such guarantee (C9_Witness: the file holds the paragraphs of
\* the other call's response).
C9_SequentialOwnParagraphs ==
    \A r \in Requests :
        Succeeded(r) /\ ~overlapped[r] =>
            fileAtReturn[r] = Docx(Format(resp[r].text))

C9_Witness ==
    \E r \in Requests : \E q \in Requests \ {r} :
        /\ Succeeded(r) /\ overlapped[r]
        /\ "save" \in effects[q] /\ resp[q].kind = "text"
        /\ fileAtReturn[r] = Docx(Format(resp[q].text))
        /\ fileAtReturn[r] # Docx(Format(resp[r].text))

\* C4: the saved document holds one paragraph for each line of the response
\* that is non-empty after trimming, in the order of those lines (paragraph
\* k shows line k, trimmed and without its markers); blank lines give no
\* paragraph.
C4_ParagraphPerNonBlankLine ==
    Saved =>
        /\ Aligned
        /\ \A k \in 1..Len(SavedLines) :
              file.paras[k].text = Unmarked(Trimmed(SavedLines[k]))

C4_Witness ==
    /\ Succeeded(1)
    /\ resp[1].text = <<"a", NL, NL>> \/ resp[1].text = <<SP, NL, "a">>
    /\ Len(file.paras) = 1

\* C5: the paragraph of a line that contains '**' is bold, is not italic
\* and shows no '*'.
C5_DoubleMarkerBold ==
    Saved =>
        /\ Aligned
        /\ \A k \in 1..Len(SavedLines) :
              HasDouble(SavedLines[k]) =>
                  /\ file.paras[k].bold
                  /\ ~file.paras[k].italic
                  /\ StarCount(file.paras[k].text) = 0

C5_Witness ==
    /\ Succeeded(1)
    /\ resp[1].text = <<STAR, STAR, STAR>>
    /\ file.paras = <<[text |-> <<>>, bold |-> TRUE, italic |-> FALSE]>>

\* C6: the paragraph of a line with exactly one '*' (and so no '**') is
\* italic, is not bold and shows no '*'.
C6_SingleMarkerItalic ==
    Saved =>
        /\ Aligned
        /\ \A k \in 1..Len(SavedLines) :
              StarCount(SavedLines[k]) = 1 =>
                  /\ file.paras[k].italic
                  /\ ~file.paras[k].bold
                  /\ StarCount(file.paras[k].text) = 0

C6_Witness ==
    /\ Succeeded(1)
    /\ resp[1].text = <<"a", STAR, "a">>
    /\ file.paras = <<[text |-> <<"a", "a">>, bold |-> FALSE, italic |-> TRUE]>>

\* C7: when no line of the response contains '*', no paragraph is bold or
\* italic and each shows its line, trimmed.
C7_NoMarkersPlain ==
    Saved /\ StarCount(resp[1].text) = 0 =>
        /\ Aligned
        /\ \A k \in 1..Len(SavedLines) :
              /\ ~file.paras[k].bold
              /\ ~file.paras[k].italic
              /\ file.paras[k].text = Trimmed(SavedLines[k])

C7_Witness ==
    /\ Succeeded(1)
    /\ resp[1].text = <<SP, "a", SP>>
    /\ file.paras = <<[text |-> <<"a">>, bold |-> FALSE, italic |-> FALSE]>>

\* C10 as stated: every paragraph of the saved document shows a non-empty
\* text.
C10_EveryParagraphNonEmpty ==
    Saved => \A k \in 1..Len(file.paras) : file.paras[k].text # <<>>

\* C10 amended: a paragraph shows an empty text exactly when its line,
\* trimmed, consists of '*' characters only; every other paragraph shows a
\* non-empty text (for '* *' the text is the one space between the markers).
C10_EmptyOnlyForMarkerLines ==
    Saved =>
        /\ Aligned
        /\ \A k \in 1..Len(SavedLines) :
              file.paras[k].text = <<>> <=>
                  StarCount(Trimmed(SavedLines[k])) = Len(Trimmed(SavedLines[k]))

C10_Witness ==
    /\ Succeeded(1)
    /\ resp[1].text = <<STAR, SP, STAR>>
    /\ file.paras = <<[text |-> <<SP>>, bold |-> FALSE, italic |-> TRUE]>>

====
